---- MODULE Spec2Model ----
(***************************************************************************)
(* The MAVLink camera component of mavlink-gphoto.                         *)
(*                                                                         *)
(* Two variants of the program live in the repository and both are         *)
(* modelled, each with its heartbeat thread and its command processor:     *)
(*   "camera"  src/src/mavlink_camera.rs  (threads camera_heartbeat and    *)
(*             receieve_message, connection behind Arc<RwLock<..>>)        *)
(*   "main"    src/src/_main.rs           (heartbeat closure and the main  *)
(*             loop, connection behind a bare Arc)                         *)
(*                                                                         *)
(* The transport (MavConnection) is an external byte stream: a send is in  *)
(* flight from the call to its return and writes its frame as a header     *)
(* part and a payload part; a recv is in flight from the call to its       *)
(* return and yields any value of its result type.                         *)
(***************************************************************************)
EXTENDS Integers, Sequences, FiniteSets, TLC

\* ------------------------------------------------------------------------
\* Bounds of the model
\* ------------------------------------------------------------------------

\* number of most recent frame parts kept in the record of the wire
MaxWire == 3

\* received COMMAND_LONGs are numbered 1, 2, .. up to MaxCommands; the number
\* MaxCommands stands for that one and every later one
MaxCommands == 3

\* longest source string given to the encoders on their own
MaxStrLen == 3

\* largest capacity given to the encoders on their own
MaxCap == 3

\* ------------------------------------------------------------------------
\* Program constants
\* ------------------------------------------------------------------------

\* heartbeat interval, Duration::from_secs(1), in milliseconds
HeartbeatIntervalMs == 1000

\* poll interval of receieve_message, Duration::from_millis(100)
PollIntervalMs == 100

\* sleep of the main loop of _main.rs after WouldBlock, Duration::from_secs(1)
MainWouldBlockMs == 1000

\* the param1 value matched by receieve_message (259.0, MAVLINK_MSG_ID of
\* CAMERA_INFORMATION); param1 is an f32 and is modelled by its integer value
CameraInformationId == 259

\* capacity of vendor_name and model_name, [u8; 32] in CAMERA_INFORMATION_DATA
NameCapacity == 32

\* capacity of cam_definition_uri, Vec<u8, 140> in CAMERA_INFORMATION_DATA
UriCapacity == 140

ResolutionH == 7952

ResolutionV == 5304

\* (1 & 0xff) << 24 | 0 << 16 | 0 << 8
FirmwareVersion == 16777216

Variants == {"camera", "main"}

Threads == {"hb", "proc"}

\* ------------------------------------------------------------------------
\* Strings as sequences of UTF-8 bytes
\* ------------------------------------------------------------------------

\* "Davis Vendor"
DavisVendor == <<68, 97, 118, 105, 115, 32, 86, 101, 110, 100, 111, 114>>

\* "Davis Model"
DavisModel == <<68, 97, 118, 105, 115, 32, 77, 111, 100, 101, 108>>

\* "Sony a7r ii"
SonyA7rII == <<83, 111, 110, 121, 32, 97, 55, 114, 32, 105, 105>>

\* "Nill"
Nill == <<78, 105, 108, 108>>

\* a definition uri one byte longer than the capacity of cam_definition_uri
LongUri == [i \in 1..(UriCapacity + 1) |-> 97]

Min(a, b) == IF a < b THEN a ELSE b

\* a plausible slip of str_to_fixed_arr: the destination is filled with
\* spaces instead of zero bytes
StrToFixedArrSpacePadded(src, N) ==
    [i \in 1..N |-> IF i <= Min(Len(src), N) THEN src[i] ELSE 32]

\* a plausible slip of str_to_fixed_arr: the last byte is kept for a
\* terminating zero
StrToFixedArrTerminated(src, N) ==
    [i \in 1..N |-> IF i <= Min(Len(src), N - 1) THEN src[i] ELSE 0]

\* str_to_fixed_arr::<N>: dst = [0u8; N]; dst[..len] = bytes[..len],
\* len = min(bytes.len(), N)
StrToFixedArr(src, N) ==
    [i \in 1..N |-> IF i <= Min(Len(src), N) THEN src[i] ELSE 0]

\* string_to_uri::<N>: Vec::from_slice(src.as_bytes()).unwrap(); from_slice
\* is Err when the slice is longer than the capacity and unwrap then panics
StringToUri(src, N) ==
    IF Len(src) <= N THEN [panic |-> FALSE, bytes |-> src]
                     ELSE [panic |-> TRUE, bytes |-> <<>>]

\* ------------------------------------------------------------------------
\* Identities and headers
\* ------------------------------------------------------------------------

\* MavlinkCameraComponent built by MavLinkCameraHandle::try_new
CameraComponent ==
    [system_id |-> 100, component_id |-> 100,
     vendor_name |-> DavisVendor, model_name |-> DavisModel]

\* mavlink::MavHeader::default()
DefaultHeader == [system_id |-> 255, component_id |-> 0]

\* a plausible slip of the thread's start: the header is left as
\* MavHeader::default()
HeaderLeftDefault(c) == DefaultHeader

\* header.system_id = information.component.system_id;
\* header.component_id = information.component.component_id
HeaderOf(c) == [system_id |-> c.system_id, component_id |-> c.component_id]

\* the header built by main of _main.rs: system 2, MAV_COMP_ID_CAMERA
MainHeader == [system_id |-> 2, component_id |-> 100]

\* ------------------------------------------------------------------------
\* Messages
\* ------------------------------------------------------------------------

\* heartbeat_message() of mavlink_camera.rs
CameraHeartbeatMessage ==
    [name |-> "HEARTBEAT", custom_mode |-> 0,
     mavtype |-> "MAV_TYPE_CAMERA", autopilot |-> "MAV_AUTOPILOT_INVALID",
     base_mode |-> {}, system_status |-> "MAV_STATE_STANDBY",
     mavlink_version |-> 3]

\* heartbeat_message() of _main.rs
MainHeartbeatMessage ==
    [name |-> "HEARTBEAT", custom_mode |-> 0,
     mavtype |-> "MAV_TYPE_CAMERA", autopilot |-> "MAV_AUTOPILOT_INVALID",
     base_mode |-> {}, system_status |-> "MAV_STATE_ACTIVE",
     mavlink_version |-> 3]

\* a plausible slip of heartbeat_message: the type is left generic
HeartbeatMessageGeneric(v) ==
    [CameraHeartbeatMessage EXCEPT !.mavtype = "MAV_TYPE_GENERIC"]

\* heartbeat_message() of the file the program is built from
HeartbeatMessage(v) ==
    IF v = "camera" THEN CameraHeartbeatMessage ELSE MainHeartbeatMessage

\* values of (boottime().tv_usec / 1000) as u32 the clock may give (the read
\* of the boot time is taken to succeed); _main.rs writes the literal 0
BootMs(v) == IF v = "camera" THEN {0, 999} ELSE {0}

\* camera_information(), the same body in both files but for time_boot_ms;
\* sensor sizes are in tenths of a millimetre (35.9, 24.0); uri is the
\* string given to string_to_uri, "Nill" in the source
CameraInformation(boot_ms, uri) ==
    [name |-> "CAMERA_INFORMATION",
     time_boot_ms |-> boot_ms,
     firmware_version |-> FirmwareVersion,
     focal_length |-> 0,
     sensor_size_h |-> 359,
     sensor_size_v |-> 240,
     flags |-> {"CAMERA_CAP_FLAGS_CAPTURE_IMAGE",
                "CAMERA_CAP_FLAGS_HAS_IMAGE_SURVEY_MODE"},
     resolution_h |-> ResolutionH,
     resolution_v |-> ResolutionV,
     cam_definition_version |-> 1,
     vendor_name |-> StrToFixedArr(DavisVendor, NameCapacity),
     model_name |-> StrToFixedArr(SonyA7rII, NameCapacity),
     lens_id |-> 0,
     cam_definition_uri |-> StringToUri(uri, UriCapacity).bytes]

\* a plausible slip of the ack: the target is our own header's address
\* instead of the sender's
CommandAckToSelf(our_header, their_header, command, result) ==
    [name |-> "COMMAND_ACK", command |-> command, result |-> result,
     target_system |-> our_header.system_id,
     target_component |-> our_header.component_id]

\* the COMMAND_ACK_DATA built by send_command_ack and by main of _main.rs
CommandAck(our_header, their_header, command, result) ==
    [name |-> "COMMAND_ACK", command |-> command, result |-> result,
     target_system |-> their_header.system_id,
     target_component |-> their_header.component_id]

\* ------------------------------------------------------------------------
\* What recv() can return
\* ------------------------------------------------------------------------

Senders ==
    {[system_id |-> 1, component_id |-> 1],
     [system_id |-> 255, component_id |-> 190]}

Commands == {"MAV_CMD_REQUEST_MESSAGE", "MAV_CMD_IMAGE_START_CAPTURE"}

Params == {0, CameraInformationId}

CommandLongs ==
    {[name |-> "COMMAND_LONG", command |-> c, param1 |-> p] :
        c \in Commands, p \in Params}

PeerHeartbeat == [name |-> "HEARTBEAT", mavtype |-> "MAV_TYPE_GCS"]

InboundMessages == CommandLongs \cup {PeerHeartbeat}

\* Err(MessageReadError::Io(e)) with e.kind() WouldBlock or another kind,
\* and Err(MessageReadError::Parse(_))
RecvErrors == {"WouldBlock", "Io", "Parse"}

RecvResults ==
    {[ok |-> TRUE, header |-> h, msg |-> m] : h \in Senders, m \in InboundMessages}
    \cup {[ok |-> FALSE, error |-> e] : e \in RecvErrors}

\* no receive has returned yet
NoResult == [ok |-> FALSE, error |-> "none"]

IsCommandLong(r) == r.ok /\ r.msg.name = "COMMAND_LONG"

IsError(r, e) == ~r.ok /\ r.error = e

SendResults == {"Ok", "Err"}

NoOp == [kind |-> "none"]

\* ------------------------------------------------------------------------
\* State
\* ------------------------------------------------------------------------

VARIABLES
    active,    \* the variants of the program that are running
    pc,        \* pc[v][t]: where thread t of variant v stands
    infoLock,  \* infoLock[v]: holder of the Mutex on MavlinkCameraInformation
    header,    \* header[v][t]: the thread's own MavHeader
    readers,   \* readers[v][t]: read guards of the RwLock held by the thread
    op,        \* op[v][t]: the thread's call in flight on the connection
    wire,      \* wire[v]: the last MaxWire frame parts written to the transport
    rx,        \* rx[v]: what the processor's last recv() returned
    out,       \* out[v]: the sends the processor made for rx[v], in order
    beat,      \* beat[v]: sleeps of the heartbeat thread between its sends
    poll,      \* poll[v]: sleeps of the processor between its receives
    component, \* the MavlinkCameraComponent inside MavlinkCameraInformation
    uriSrc,    \* the string camera_information() gives to string_to_uri
    cmdNo,     \* cmdNo[v]: the number of the last COMMAND_LONG received
    enc        \* a call of an encoder on its own: its arguments and result

\* what is fixed when the program starts
setup == <<active, component, uriSrc, enc>>

vars == <<active, component, uriSrc, enc, cmdNo,
          pc, infoLock, header, readers, op, wire, rx, out, beat, poll>>

\* the process of variant v runs until its main function returns or panics
Alive(v) ==
    /\ v \in active
    /\ pc[v]["proc"] # "exited"
    /\ ~(v = "main" /\ pc[v]["proc"] = "panicked")

\* sleeps since the last call (slept), whether a call was made before
\* (called), and the sleep between the last two calls (spacing, -1 if there
\* are not two yet)
NoCalls == [slept |-> 0, called |-> FALSE, spacing |-> -1]

Slept(c, ms) == [c EXCEPT !.slept = @ + ms]

Called(c) ==
    [slept |-> 0, called |-> TRUE,
     spacing |-> IF c.called THEN c.slept ELSE -1]

InitOf(variants) ==
    /\ active = variants
    /\ pc = [v \in Variants |->
                IF v = "camera" THEN [hb |-> "start", proc |-> "start"]
                                ELSE [hb |-> "send", proc |-> "recv"]]
    /\ infoLock = [v \in Variants |-> "free"]
    /\ header = [v \in Variants |-> [t \in Threads |->
                    IF v = "camera" THEN DefaultHeader ELSE MainHeader]]
    /\ readers = [v \in Variants |-> [t \in Threads |-> 0]]
    /\ op = [v \in Variants |-> [t \in Threads |-> NoOp]]
    /\ wire = [v \in Variants |-> <<>>]
    /\ rx = [v \in Variants |-> NoResult]
    /\ out = [v \in Variants |-> <<>>]
    /\ beat = [v \in Variants |-> NoCalls]
    /\ poll = [v \in Variants |-> NoCalls]
    /\ component = CameraComponent

\* no encoder is called on its own
NoEncoding == [stage |-> "off"]

\* the number of the last command after r is received
Numbering(n, r) ==
    IF IsCommandLong(r) /\ n < MaxCommands THEN n + 1 ELSE n

\* the commands are numbered from the first one on
Numbered == cmdNo = [v \in Variants |-> 0]

\* the commands are not told apart: each has the number MaxCommands
Unnumbered == cmdNo = [v \in Variants |-> MaxCommands]

\* one of the two programs runs
Init ==
    /\ \E v \in Variants : InitOf({v})
    /\ uriSrc = Nill
    /\ Numbered
    /\ enc = NoEncoding

\* ------------------------------------------------------------------------
\* The connection
\* ------------------------------------------------------------------------

\* a plausible slip: the connection is behind a Mutex, or write() is called,
\* and the guard is granted only when no guard is held, the caller's own
\* included
ReadGrantedExclusive(v, t) == \A u \in Threads : readers[v][u] = 0

\* RwLock::read() is granted unless a write guard is held; the program takes
\* no write guard, and read guards, the caller's own included, do not
\* stand in the way
ReadGranted(v, t) == TRUE

\* vehicle.read().unwrap(): a read guard of the RwLock
ReadLock(v, t) == [readers EXCEPT ![v][t] = @ + 1]

\* n read guards of thread t go out of scope
ReadUnlock(v, t, n) == [readers EXCEPT ![v][t] = @ - n]

\* conn.send(&header, &msg) is called; re is the number of the command the
\* processor is handling, 0 for a heartbeat
SendCall(v, t, msg) ==
    [op EXCEPT ![v][t] =
        [kind |-> "send", msg |-> msg, header |-> header[v][t], part |-> 0,
         re |-> IF t = "proc" THEN cmdNo[v] ELSE 0]]

\* conn.recv() is called
RecvCall(v, t) == [op EXCEPT ![v][t] = [kind |-> "recv"]]

Return(v, t) == [op EXCEPT ![v][t] = NoOp]

\* a send that returns Ok has written its whole frame; one that returns Err
\* failed before it wrote
SendReturns(v, t, res) ==
    /\ op[v][t].kind = "send"
    /\ op[v][t].part = IF res = "Ok" THEN 2 ELSE 0

Written(w, part) ==
    IF Len(w) < MaxWire THEN Append(w, part) ELSE Append(Tail(w), part)

\* the transport writes the next part (header, then payload and checksum) of
\* the frame of a send in flight
TransportWrite(v, t) ==
    /\ Alive(v)
    /\ op[v][t].kind = "send"
    /\ op[v][t].part < 2
    /\ op' = [op EXCEPT ![v][t].part = @ + 1]
    /\ wire' = [wire EXCEPT ![v] =
                  Written(@, [by |-> t, name |-> op[v][t].msg.name,
                              part |-> op[v][t].part + 1,
                              re |-> op[v][t].re])]
    /\ UNCHANGED <<setup, cmdNo, pc, infoLock, header, readers, rx, out, beat, poll>>

\* the record of a send the processor made
Sent(v, res) ==
    [msg |-> op[v]["proc"].msg, header |-> op[v]["proc"].header, res |-> res,
     re |-> op[v]["proc"].re]

\* ------------------------------------------------------------------------
\* mavlink_camera.rs: start of the two threads
\* ------------------------------------------------------------------------

\* mavlink_info.lock().unwrap(); the thread clones the vehicle and builds its
\* header from the component's ids
CameraLockInfo(v, t) ==
    /\ v = "camera" /\ Alive(v)
    /\ pc[v][t] = "start"
    /\ infoLock[v] = "free"
    /\ infoLock' = [infoLock EXCEPT ![v] = t]
    /\ header' = [header EXCEPT ![v][t] = HeaderOf(component)]
    /\ pc' = [pc EXCEPT ![v][t] = "locked"]
    /\ UNCHANGED <<setup, cmdNo, readers, op, wire, rx, out, beat, poll>>

\* a plausible slip: drop(information) is left out and the guard lives as
\* long as the thread's function, which never returns
InfoLockKept(t) == t

\* the holder of the Mutex after drop(information)
InfoLockAfterDrop(t) == "free"

\* drop(information)
CameraDropInfo(v, t) ==
    /\ v = "camera" /\ Alive(v)
    /\ pc[v][t] = "locked"
    /\ infoLock[v] = t
    /\ infoLock' = [infoLock EXCEPT ![v] = InfoLockAfterDrop(t)]
    /\ pc' = [pc EXCEPT ![v][t] = "sleep"]
    /\ UNCHANGED <<setup, cmdNo, header, readers, op, wire, rx, out, beat, poll>>

\* ------------------------------------------------------------------------
\* mavlink_camera.rs: camera_heartbeat
\* ------------------------------------------------------------------------

\* std::thread::sleep(Duration::from_secs(1))
CameraHeartbeatSleep(v) ==
    /\ v = "camera" /\ Alive(v)
    /\ pc[v]["hb"] = "sleep"
    /\ beat' = [beat EXCEPT ![v] = Slept(@, HeartbeatIntervalMs)]
    /\ pc' = [pc EXCEPT ![v]["hb"] = "send"]
    /\ UNCHANGED <<setup, cmdNo, infoLock, header, readers, op, wire, rx, out, poll>>

\* vehicle.read().unwrap().send(&header, &heartbeat_message()) is called
CameraHeartbeatSend(v) ==
    /\ v = "camera" /\ Alive(v)
    /\ pc[v]["hb"] = "send"
    /\ ReadGranted(v, "hb")
    /\ readers' = ReadLock(v, "hb")
    /\ op' = SendCall(v, "hb", HeartbeatMessage(v))
    /\ beat' = [beat EXCEPT ![v] = Called(@)]
    /\ pc' = [pc EXCEPT ![v]["hb"] = "sending"]
    /\ UNCHANGED <<setup, cmdNo, infoLock, header, wire, rx, out, poll>>

\* the send returns; Err is printed, Ok is printed, the guard is dropped and
\* the loop goes round
CameraHeartbeatSent(v, res) ==
    /\ v = "camera" /\ Alive(v)
    /\ pc[v]["hb"] = "sending"
    /\ SendReturns(v, "hb", res)
    /\ op' = Return(v, "hb")
    /\ readers' = ReadUnlock(v, "hb", 1)
    /\ pc' = [pc EXCEPT ![v]["hb"] = "sleep"]
    /\ UNCHANGED <<setup, cmdNo, infoLock, header, wire, rx, out, beat, poll>>

\* ------------------------------------------------------------------------
\* mavlink_camera.rs: receieve_message
\* ------------------------------------------------------------------------

\* a plausible slip of the outer match: any other message is answered with
\* the camera information
CameraOnReceiveAnswersAll(r) ==
    IF IsCommandLong(r) THEN "ack" ELSE IF r.ok THEN "info" ELSE "sleep"

\* the arms of `match vehicle.read().unwrap().recv()`: COMMAND_LONG is
\* handled, any other message and any error fall through to the next cycle
\* a plausible slip: the capability reply is made at once and the
\* acknowledgement is left out of the COMMAND_LONG arm
CameraOnReceiveReplyFirst(r) == IF IsCommandLong(r) THEN "dispatch" ELSE "sleep"

CameraOnReceive(r) == IF IsCommandLong(r) THEN "ack" ELSE "sleep"

\* the pattern COMMAND_LONG_DATA {param1: 259.0, ..}
CameraWantsInformation(command_long) ==
    command_long.param1 = CameraInformationId

\* a plausible slip: the ack's send is unwrapped, as in _main.rs
CameraAfterAckUnwrap(res) == IF res = "Ok" THEN "dispatch" ELSE "panicked"

\* send_command_ack: if let Err(err) = .. { eprintln } and it returns
CameraAfterAck(res) == "dispatch"

\* thread::sleep(Duration::from_millis(100))
CameraPollSleep(v) ==
    /\ v = "camera" /\ Alive(v)
    /\ pc[v]["proc"] = "sleep"
    /\ poll' = [poll EXCEPT ![v] = Slept(@, PollIntervalMs)]
    /\ pc' = [pc EXCEPT ![v]["proc"] = "recv"]
    /\ UNCHANGED <<setup, cmdNo, infoLock, header, readers, op, wire, rx, out, beat>>

\* vehicle.read().unwrap().recv() is called; the read guard is a temporary of
\* the match scrutinee and lives to the end of the match
CameraRecv(v) ==
    /\ v = "camera" /\ Alive(v)
    /\ pc[v]["proc"] = "recv"
    /\ ReadGranted(v, "proc")
    /\ readers' = ReadLock(v, "proc")
    /\ op' = RecvCall(v, "proc")
    /\ poll' = [poll EXCEPT ![v] = Called(@)]
    /\ pc' = [pc EXCEPT ![v]["proc"] = "recving"]
    /\ UNCHANGED <<setup, cmdNo, infoLock, header, wire, rx, out, beat>>

\* recv() returns r; when no arm does anything the match ends here and the
\* guard is dropped
CameraRecvEnd(v, r) ==
    /\ v = "camera" /\ Alive(v)
    /\ pc[v]["proc"] = "recving"
    /\ op[v]["proc"].kind = "recv"
    /\ op' = Return(v, "proc")
    /\ rx' = [rx EXCEPT ![v] = r]
    /\ out' = [out EXCEPT ![v] = <<>>]
    /\ cmdNo' = [cmdNo EXCEPT ![v] = Numbering(@, r)]
    /\ pc' = [pc EXCEPT ![v]["proc"] = CameraOnReceive(r)]
    /\ readers' = IF CameraOnReceive(r) = "sleep"
                    THEN ReadUnlock(v, "proc", 1) ELSE readers
    /\ UNCHANGED <<setup, infoLock, header, wire, beat, poll>>

\* send_command_ack(&vehicle, &header, &recv_header, command_long.command,
\* MAV_RESULT_ACCEPTED): a second read guard, and the send is called
CameraAck(v) ==
    /\ v = "camera" /\ Alive(v)
    /\ pc[v]["proc"] = "ack"
    /\ ReadGranted(v, "proc")
    /\ readers' = ReadLock(v, "proc")
    /\ op' = SendCall(v, "proc",
                CommandAck(header[v]["proc"], rx[v].header,
                           rx[v].msg.command, "MAV_RESULT_ACCEPTED"))
    /\ pc' = [pc EXCEPT ![v]["proc"] = "acking"]
    /\ UNCHANGED <<setup, cmdNo, infoLock, header, wire, rx, out, beat, poll>>

\* the ack's send returns; Err is printed and send_command_ack returns
CameraAckEnd(v, res) ==
    /\ v = "camera" /\ Alive(v)
    /\ pc[v]["proc"] = "acking"
    /\ SendReturns(v, "proc", res)
    /\ out' = [out EXCEPT ![v] = Append(@, Sent(v, res))]
    /\ op' = Return(v, "proc")
    /\ readers' = ReadUnlock(v, "proc", 1)
    /\ pc' = [pc EXCEPT ![v]["proc"] = CameraAfterAck(res)]
    /\ UNCHANGED <<setup, cmdNo, infoLock, header, wire, rx, beat, poll>>

\* match command_long { cmd @ COMMAND_LONG_DATA {param1: 259.0, ..} => ..,
\* _ => {} }; with the other arm the outer match ends and its guard is dropped
CameraDispatch(v) ==
    /\ v = "camera" /\ Alive(v)
    /\ pc[v]["proc"] = "dispatch"
    /\ IF CameraWantsInformation(rx[v].msg)
         THEN /\ pc' = [pc EXCEPT ![v]["proc"] = "info"]
              /\ readers' = readers
         ELSE /\ pc' = [pc EXCEPT ![v]["proc"] = "sleep"]
              /\ readers' = ReadUnlock(v, "proc", 1)
    /\ UNCHANGED <<setup, cmdNo, infoLock, header, op, wire, rx, out, beat, poll>>

\* vehicle.read().unwrap().send(&header, &camera_information()): the guard
\* is taken, the message is built and the send is called; when string_to_uri
\* panics the thread unwinds, its guards are dropped and it is gone
CameraInfoSend(v, boot_ms) ==
    /\ v = "camera" /\ Alive(v)
    /\ pc[v]["proc"] = "info"
    /\ ReadGranted(v, "proc")
    /\ IF StringToUri(uriSrc, UriCapacity).panic
         THEN /\ readers' = ReadUnlock(v, "proc", readers[v]["proc"])
              /\ pc' = [pc EXCEPT ![v]["proc"] = "panicked"]
              /\ op' = op
         ELSE /\ readers' = ReadLock(v, "proc")
              /\ op' = SendCall(v, "proc", CameraInformation(boot_ms, uriSrc))
              /\ pc' = [pc EXCEPT ![v]["proc"] = "infoing"]
    /\ UNCHANGED <<setup, cmdNo, infoLock, header, wire, rx, out, beat, poll>>

\* the send returns and its result is dropped; the match ends and every
\* guard the thread holds is dropped
CameraInfoSent(v, res) ==
    /\ v = "camera" /\ Alive(v)
    /\ pc[v]["proc"] = "infoing"
    /\ SendReturns(v, "proc", res)
    /\ out' = [out EXCEPT ![v] = Append(@, Sent(v, res))]
    /\ op' = Return(v, "proc")
    /\ readers' = ReadUnlock(v, "proc", readers[v]["proc"])
    /\ pc' = [pc EXCEPT ![v]["proc"] = "sleep"]
    /\ UNCHANGED <<setup, cmdNo, infoLock, header, wire, rx, beat, poll>>

\* ------------------------------------------------------------------------
\* _main.rs: the heartbeat thread
\* ------------------------------------------------------------------------

\* if res.is_ok() { sleep } else { println } and round the loop
MainAfterHeartbeat(res) == IF res = "Ok" THEN "sleep" ELSE "send"

\* vehicle.send(&header, &heartbeat_message()) is called
MainHeartbeatSend(v) ==
    /\ v = "main" /\ Alive(v)
    /\ pc[v]["hb"] = "send"
    /\ op' = SendCall(v, "hb", HeartbeatMessage(v))
    /\ beat' = [beat EXCEPT ![v] = Called(@)]
    /\ pc' = [pc EXCEPT ![v]["hb"] = "sending"]
    /\ UNCHANGED <<setup, cmdNo, infoLock, header, readers, wire, rx, out, poll>>

\* the send returns res
MainHeartbeatSent(v, res) ==
    /\ v = "main" /\ Alive(v)
    /\ pc[v]["hb"] = "sending"
    /\ SendReturns(v, "hb", res)
    /\ op' = Return(v, "hb")
    /\ pc' = [pc EXCEPT ![v]["hb"] = MainAfterHeartbeat(res)]
    /\ UNCHANGED <<setup, cmdNo, infoLock, header, readers, wire, rx, out, beat, poll>>

\* thread::sleep(Duration::from_secs(1))
MainHeartbeatSleep(v) ==
    /\ v = "main" /\ Alive(v)
    /\ pc[v]["hb"] = "sleep"
    /\ beat' = [beat EXCEPT ![v] = Slept(@, HeartbeatIntervalMs)]
    /\ pc' = [pc EXCEPT ![v]["hb"] = "send"]
    /\ UNCHANGED <<setup, cmdNo, infoLock, header, readers, op, wire, rx, out, poll>>

\* ------------------------------------------------------------------------
\* _main.rs: the main loop
\* ------------------------------------------------------------------------

\* a plausible slip of the WouldBlock arm: the loop goes round without the
\* sleep
MainOnReceiveNoSleep(r) ==
    IF r.ok
      THEN IF r.msg.name = "COMMAND_LONG" THEN "ack" ELSE "recv"
      ELSE IF r.error = "Io" THEN "exited" ELSE "recv"

\* the arms of `match vehicle.recv()`: COMMAND_LONG is handled, any other
\* message is printed, Io(WouldBlock) sleeps and continues, any other Io
\* breaks out of the loop and main returns, any other error is ignored
MainOnReceive(r) ==
    IF r.ok
      THEN IF r.msg.name = "COMMAND_LONG" THEN "ack" ELSE "recv"
      ELSE IF r.error = "WouldBlock" THEN "wouldblock"
           ELSE IF r.error = "Io" THEN "exited" ELSE "recv"

\* vehicle.send(..COMMAND_ACK..).unwrap(): Err panics the main thread
MainAfterAck(res) == IF res = "Ok" THEN "dispatch" ELSE "exited"

\* the pattern command @ MavCmd::MAV_CMD_REQUEST_MESSAGE
MainWantsInformation(command_long) ==
    command_long.command = "MAV_CMD_REQUEST_MESSAGE"

\* vehicle.recv() is called
MainRecv(v) ==
    /\ v = "main" /\ Alive(v)
    /\ pc[v]["proc"] = "recv"
    /\ op' = RecvCall(v, "proc")
    /\ poll' = [poll EXCEPT ![v] = Called(@)]
    /\ pc' = [pc EXCEPT ![v]["proc"] = "recving"]
    /\ UNCHANGED <<setup, cmdNo, infoLock, header, readers, wire, rx, out, beat>>

\* recv() returns r
MainRecvEnd(v, r) ==
    /\ v = "main" /\ Alive(v)
    /\ pc[v]["proc"] = "recving"
    /\ op[v]["proc"].kind = "recv"
    /\ op' = Return(v, "proc")
    /\ rx' = [rx EXCEPT ![v] = r]
    /\ out' = [out EXCEPT ![v] = <<>>]
    /\ cmdNo' = [cmdNo EXCEPT ![v] = Numbering(@, r)]
    /\ pc' = [pc EXCEPT ![v]["proc"] = MainOnReceive(r)]
    /\ UNCHANGED <<setup, infoLock, header, readers, wire, beat, poll>>

\* thread::sleep(Duration::from_secs(1)); continue
MainWouldBlockSleep(v) ==
    /\ v = "main" /\ Alive(v)
    /\ pc[v]["proc"] = "wouldblock"
    /\ poll' = [poll EXCEPT ![v] = Slept(@, MainWouldBlockMs)]
    /\ pc' = [pc EXCEPT ![v]["proc"] = "recv"]
    /\ UNCHANGED <<setup, cmdNo, infoLock, header, readers, op, wire, rx, out, beat>>

\* vehicle.send(&header, &COMMAND_ACK {..}) is called
MainAck(v) ==
    /\ v = "main" /\ Alive(v)
    /\ pc[v]["proc"] = "ack"
    /\ op' = SendCall(v, "proc",
                CommandAck(header[v]["proc"], rx[v].header,
                           rx[v].msg.command, "MAV_RESULT_ACCEPTED"))
    /\ pc' = [pc EXCEPT ![v]["proc"] = "acking"]
    /\ UNCHANGED <<setup, cmdNo, infoLock, header, readers, wire, rx, out, beat, poll>>

\* the ack's send returns and is unwrapped
MainAckEnd(v, res) ==
    /\ v = "main" /\ Alive(v)
    /\ pc[v]["proc"] = "acking"
    /\ SendReturns(v, "proc", res)
    /\ out' = [out EXCEPT ![v] = Append(@, Sent(v, res))]
    /\ op' = Return(v, "proc")
    /\ pc' = [pc EXCEPT ![v]["proc"] = MainAfterAck(res)]
    /\ UNCHANGED <<setup, cmdNo, infoLock, header, readers, wire, rx, beat, poll>>

\* match command_long.command { MAV_CMD_REQUEST_MESSAGE => .., _ => {} }
MainDispatch(v) ==
    /\ v = "main" /\ Alive(v)
    /\ pc[v]["proc"] = "dispatch"
    /\ pc' = [pc EXCEPT ![v]["proc"] =
                IF MainWantsInformation(rx[v].msg) THEN "info" ELSE "recv"]
    /\ UNCHANGED <<setup, cmdNo, infoLock, header, readers, op, wire, rx, out, beat, poll>>

\* vehicle.send(&header, &camera_information()): the message is built and
\* the send is called; when string_to_uri panics the main thread unwinds
\* and the process ends
MainInfoSend(v, boot_ms) ==
    /\ v = "main" /\ Alive(v)
    /\ pc[v]["proc"] = "info"
    /\ IF StringToUri(uriSrc, UriCapacity).panic
         THEN /\ pc' = [pc EXCEPT ![v]["proc"] = "panicked"]
              /\ op' = op
         ELSE /\ op' = SendCall(v, "proc", CameraInformation(boot_ms, uriSrc))
              /\ pc' = [pc EXCEPT ![v]["proc"] = "infoing"]
    /\ UNCHANGED <<setup, cmdNo, infoLock, header, readers, wire, rx, out, beat, poll>>

\* the send returns and its result is dropped
MainInfoSent(v, res) ==
    /\ v = "main" /\ Alive(v)
    /\ pc[v]["proc"] = "infoing"
    /\ SendReturns(v, "proc", res)
    /\ out' = [out EXCEPT ![v] = Append(@, Sent(v, res))]
    /\ op' = Return(v, "proc")
    /\ pc' = [pc EXCEPT ![v]["proc"] = "recv"]
    /\ UNCHANGED <<setup, cmdNo, infoLock, header, readers, wire, rx, beat, poll>>

\* ------------------------------------------------------------------------
\* Specifications
\* ------------------------------------------------------------------------

Next ==
    \/ \E v \in Variants, t \in Threads : CameraLockInfo(v, t)
    \/ \E v \in Variants, t \in Threads : CameraDropInfo(v, t)
    \/ \E v \in Variants : CameraHeartbeatSleep(v)
    \/ \E v \in Variants : CameraHeartbeatSend(v)
    \/ \E v \in Variants, res \in SendResults : CameraHeartbeatSent(v, res)
    \/ \E v \in Variants : CameraPollSleep(v)
    \/ \E v \in Variants : CameraRecv(v)
    \/ \E v \in Variants, r \in RecvResults : CameraRecvEnd(v, r)
    \/ \E v \in Variants : CameraAck(v)
    \/ \E v \in Variants, res \in SendResults : CameraAckEnd(v, res)
    \/ \E v \in Variants : CameraDispatch(v)
    \/ \E v \in Variants : \E b \in BootMs(v) : CameraInfoSend(v, b)
    \/ \E v \in Variants, res \in SendResults : CameraInfoSent(v, res)
    \/ \E v \in Variants : MainHeartbeatSend(v)
    \/ \E v \in Variants, res \in SendResults : MainHeartbeatSent(v, res)
    \/ \E v \in Variants : MainHeartbeatSleep(v)
    \/ \E v \in Variants : MainRecv(v)
    \/ \E v \in Variants, r \in RecvResults : MainRecvEnd(v, r)
    \/ \E v \in Variants : MainWouldBlockSleep(v)
    \/ \E v \in Variants : MainAck(v)
    \/ \E v \in Variants, res \in SendResults : MainAckEnd(v, res)
    \/ \E v \in Variants : MainDispatch(v)
    \/ \E v \in Variants : \E b \in BootMs(v) : MainInfoSend(v, b)
    \/ \E v \in Variants, res \in SendResults : MainInfoSent(v, res)
    \/ \E v \in Variants, t \in Threads : TransportWrite(v, t)

\* one of the two programs, with both of its threads
Spec == Init /\ [][Next]_vars

\* the two command processors side by side, for comparing what they do with
\* the same result of recv()
InitPair ==
    InitOf(Variants) /\ uriSrc = Nill /\ Unnumbered /\ enc = NoEncoding

NextPair ==
    \/ \E v \in Variants : CameraLockInfo(v, "proc")
    \/ \E v \in Variants : CameraDropInfo(v, "proc")
    \/ \E v \in Variants : CameraPollSleep(v)
    \/ \E v \in Variants : CameraRecv(v)
    \/ \E v \in Variants, r \in RecvResults : CameraRecvEnd(v, r)
    \/ \E v \in Variants : CameraAck(v)
    \/ \E v \in Variants, res \in SendResults : CameraAckEnd(v, res)
    \/ \E v \in Variants : CameraDispatch(v)
    \/ \E v \in Variants : \E b \in BootMs(v) : CameraInfoSend(v, b)
    \/ \E v \in Variants, res \in SendResults : CameraInfoSent(v, res)
    \/ \E v \in Variants : MainRecv(v)
    \/ \E v \in Variants, r \in RecvResults : MainRecvEnd(v, r)
    \/ \E v \in Variants : MainWouldBlockSleep(v)
    \/ \E v \in Variants : MainAck(v)
    \/ \E v \in Variants, res \in SendResults : MainAckEnd(v, res)
    \/ \E v \in Variants : MainDispatch(v)
    \/ \E v \in Variants : \E b \in BootMs(v) : MainInfoSend(v, b)
    \/ \E v \in Variants, res \in SendResults : MainInfoSent(v, res)
    \/ \E v \in Variants : TransportWrite(v, "proc")

SpecPair == InitPair /\ [][NextPair]_vars

\* one of the two programs, built with "Nill" or with a definition uri that
\* is longer than the capacity of cam_definition_uri
InitUri ==
    /\ \E v \in Variants : InitOf({v})
    /\ uriSrc \in {Nill, LongUri}
    /\ Unnumbered
    /\ enc = NoEncoding

SpecUri == InitUri /\ [][Next]_vars

\* the steps of the heartbeat thread of variant v, the transport's writes
\* for its send included
HeartbeatStep(v) ==
    \/ CameraLockInfo(v, "hb")
    \/ CameraDropInfo(v, "hb")
    \/ CameraHeartbeatSleep(v)
    \/ CameraHeartbeatSend(v)
    \/ \E res \in SendResults : CameraHeartbeatSent(v, res)
    \/ MainHeartbeatSend(v)
    \/ \E res \in SendResults : MainHeartbeatSent(v, res)
    \/ MainHeartbeatSleep(v)
    \/ TransportWrite(v, "hb")

\* the steps of the processor thread of variant v, the transport's writes
\* for its sends and the return of its recv included
ProcessorStep(v) ==
    \/ CameraLockInfo(v, "proc")
    \/ CameraDropInfo(v, "proc")
    \/ CameraPollSleep(v)
    \/ CameraRecv(v)
    \/ \E r \in RecvResults : CameraRecvEnd(v, r)
    \/ CameraAck(v)
    \/ \E res \in SendResults : CameraAckEnd(v, res)
    \/ CameraDispatch(v)
    \/ \E b \in BootMs(v) : CameraInfoSend(v, b)
    \/ \E res \in SendResults : CameraInfoSent(v, res)
    \/ MainRecv(v)
    \/ \E r \in RecvResults : MainRecvEnd(v, r)
    \/ MainWouldBlockSleep(v)
    \/ MainAck(v)
    \/ \E res \in SendResults : MainAckEnd(v, res)
    \/ MainDispatch(v)
    \/ \E b \in BootMs(v) : MainInfoSend(v, b)
    \/ \E res \in SendResults : MainInfoSent(v, res)
    \/ TransportWrite(v, "proc")

InitFair ==
    /\ \E v \in Variants : InitOf({v})
    /\ uriSrc = Nill
    /\ Unnumbered
    /\ enc = NoEncoding

\* ------------------------------------------------------------------------
\* The encoders on their own
\* ------------------------------------------------------------------------

\* bytes of source strings: an ASCII letter and the first byte of a
\* two-byte UTF-8 character
SourceBytes == {97, 195}

SourceStrings ==
    UNION {[1..n -> SourceBytes] : n \in 0..MaxStrLen}

\* no program runs; an encoder is about to be called with src and a
\* capacity
InitEncode ==
    /\ InitOf({})
    /\ uriSrc = Nill
    /\ Unnumbered
    /\ enc \in {[stage |-> "input", src |-> src, cap |-> n] :
                    src \in SourceStrings, n \in 0..MaxCap}

\* str_to_fixed_arr::<cap>(src) is called and returns
EncodeFixed ==
    /\ enc.stage = "input"
    /\ enc' = [stage |-> "fixed", src |-> enc.src, cap |-> enc.cap,
               bytes |-> StrToFixedArr(enc.src, enc.cap)]
    /\ UNCHANGED <<active, component, uriSrc, cmdNo,
                   pc, infoLock, header, readers, op, wire, rx, out, beat, poll>>

\* string_to_uri::<cap>(src) is called and returns or panics
EncodeUri ==
    /\ enc.stage = "input"
    /\ enc' = [stage |-> "uri", src |-> enc.src, cap |-> enc.cap,
               result |-> StringToUri(enc.src, enc.cap)]
    /\ UNCHANGED <<active, component, uriSrc, cmdNo,
                   pc, infoLock, header, readers, op, wire, rx, out, beat, poll>>

NextEncode == EncodeFixed \/ EncodeUri

SpecEncode == InitEncode /\ [][NextEncode]_vars

\* one of the two programs under a fair scheduler: a thread that can take a
\* step takes one, and a call of send or recv returns
SpecFair ==
    /\ InitFair
    /\ [][Next]_vars
    /\ \A v \in Variants : WF_vars(HeartbeatStep(v)) /\ WF_vars(ProcessorStep(v))

\* ------------------------------------------------------------------------
\* Properties
\* ------------------------------------------------------------------------

\* the processor is through with rx[v] and is at, or on its way round to,
\* the next receive
Handled(v) == pc[v]["proc"] \in {"sleep", "recv", "recving", "wouldblock"}

\* the processor is in the code that decides on, builds or sends the reply
\* with the camera information
InReplyLogic(v) == pc[v]["proc"] \in {"dispatch", "info", "infoing"}

Names(sends) == [i \in 1..Len(sends) |-> sends[i].msg.name]

Count(sends, name) ==
    Cardinality({i \in 1..Len(sends) : sends[i].msg.name = name})

\* a message-request command whose target is the camera information
IsInformationRequest(command_long) ==
    /\ command_long.command = "MAV_CMD_REQUEST_MESSAGE"
    /\ command_long.param1 = CameraInformationId

Zeros(n) == [i \in 1..n |-> 0]

\* C1: for a received COMMAND_LONG the processor sends exactly one
\* COMMAND_ACK, with result ACCEPTED, the received command and the sender's
\* system and component id as target, and that send has returned before any
\* of the logic of the camera-information reply runs.
AckOnceBeforeReply ==
    \A v \in active :
        IsCommandLong(rx[v]) =>
            /\ pc[v]["proc"] \in {"ack", "acking"} => out[v] = <<>>
            /\ pc[v]["proc"] = "acking" =>
                  /\ op[v]["proc"].kind = "send"
                  /\ op[v]["proc"].msg.name = "COMMAND_ACK"
            /\ pc[v]["proc"] \notin {"ack", "acking"} =>
                  /\ Count(out[v], "COMMAND_ACK") = 1
                  /\ out[v][1].msg =
                        [name |-> "COMMAND_ACK",
                         command |-> rx[v].msg.command,
                         result |-> "MAV_RESULT_ACCEPTED",
                         target_system |-> rx[v].header.system_id,
                         target_component |-> rx[v].header.component_id]
            /\ InReplyLogic(v) => Len(out[v]) >= 1

\* a command from (255, 190) was acknowledged on the wire and the reply
\* logic is about to run
AckOnceBeforeReplyWitness ==
    \E v \in active :
        /\ IsCommandLong(rx[v])
        /\ rx[v].header = [system_id |-> 255, component_id |-> 190]
        /\ pc[v]["proc"] = "dispatch"
        /\ out[v][1].res = "Ok"

\* C2: once a received COMMAND_LONG is handled, the processor has sent one
\* ack, and one CAMERA_INFORMATION if the command is a message request for
\* the camera information and none for any other command.
ReplyOnlyToInformationRequest ==
    \A v \in active :
        (IsCommandLong(rx[v]) /\ Handled(v)) =>
            /\ Count(out[v], "COMMAND_ACK") = 1
            /\ Count(out[v], "CAMERA_INFORMATION") =
                  IF IsInformationRequest(rx[v].msg) THEN 1 ELSE 0

\* C3, for mavlink_camera.rs, whose RwLock the claim is about: at most one
\* send or receive is in flight on the connection, and a thread with one in
\* flight is the only thread that holds a guard of the lock.
OneOperationInFlight ==
    "camera" \in active =>
        /\ Cardinality({t \in Threads : op["camera"][t].kind # "none"}) <= 1
        /\ \A t \in Threads :
              op["camera"][t].kind # "none" =>
                  \A u \in Threads \ {t} : readers["camera"][u] = 0

HeartbeatFixedCadence ==
    \A v \in active :
        beat[v].spacing # -1 => beat[v].spacing = HeartbeatIntervalMs

\* the poll interval of the processor of variant v
PollInterval(v) == IF v = "camera" THEN PollIntervalMs ELSE MainWouldBlockMs

\* C6 as stated: between any two consecutive receive calls of the processor
\* there is a sleep of the poll interval, and WouldBlock does not end the
\* loop.
SleepBetweenAnyTwoReceives ==
    \A v \in active :
        /\ poll[v].spacing # -1 => poll[v].spacing >= PollInterval(v)
        /\ IsError(rx[v], "WouldBlock") =>
              pc[v]["proc"] # "exited"

\* C6 amended: a receive call that follows a WouldBlock result comes after
\* exactly one sleep of the loop's interval (100 ms in mavlink_camera.rs,
\* which sleeps before every receive whatever the last result was; 1 s in
\* _main.rs, which sleeps after WouldBlock only and calls receive again at
\* once after any other result), and WouldBlock does not end the loop.
SleepAfterWouldBlock ==
    \A v \in active :
        /\ (pc[v]["proc"] = "recving" /\ poll[v].spacing # -1) =>
              IF v = "camera" \/ IsError(rx[v], "WouldBlock")
                THEN poll[v].spacing = PollInterval(v)
                ELSE poll[v].spacing = 0
        /\ IsError(rx[v], "WouldBlock") =>
              pc[v]["proc"] # "exited"

\* the main loop of _main.rs is in a receive that follows WouldBlock
SleepAfterWouldBlockWitness ==
    /\ "main" \in active
    /\ pc["main"]["proc"] = "recving"
    /\ IsError(rx["main"], "WouldBlock")
    /\ poll["main"].spacing = MainWouldBlockMs

\* C7: the two processing loops react alike to an Io error of receive:
\* both go on or both end.
IoPolicyUniform ==
    (IsError(rx["camera"], "Io") /\ IsError(rx["main"], "Io"))
        => (pc["camera"]["proc"] = "exited" <=> pc["main"]["proc"] = "exited")

\* C8: a received message that is no COMMAND_LONG, and a receive that
\* failed, is followed by no send of the processor: the processor sends only
\* while the last thing it received is a COMMAND_LONG, and after any other
\* message it is in its next poll cycle.
OnlyCommandLongAnswered ==
    \A v \in active :
        ~IsCommandLong(rx[v]) =>
            /\ out[v] = <<>>
            /\ op[v]["proc"].kind # "send"
            /\ pc[v]["proc"] \notin {"ack", "acking", "dispatch", "info", "infoing"}
            /\ rx[v].ok => Handled(v)

\* a heartbeat of the peer was received and the processor is in its next
\* cycle, having sent nothing
OnlyCommandLongAnsweredWitness ==
    \E v \in active :
        /\ rx[v].ok /\ rx[v].msg = PeerHeartbeat
        /\ pc[v]["proc"] = "recving"
        /\ out[v] = <<>>

\* C9: for the same COMMAND_LONG the two processing loops make the same
\* sends, with a CAMERA_INFORMATION exactly when the command is a message
\* request for the camera information.
StrategiesAgree ==
    (/\ IsCommandLong(rx["camera"]) /\ IsCommandLong(rx["main"])
     /\ rx["camera"].msg = rx["main"].msg
     /\ Handled("camera") /\ Handled("main"))
        => /\ Names(out["camera"]) = Names(out["main"])
           /\ Count(out["camera"], "CAMERA_INFORMATION") =
                 IF IsInformationRequest(rx["camera"].msg) THEN 1 ELSE 0

\* COMMAND_LONG{MAV_CMD_REQUEST_MESSAGE, param1 = 259} from (1, 1)
ScenarioRequest ==
    [ok |-> TRUE, header |-> [system_id |-> 1, component_id |-> 1],
     msg |-> [name |-> "COMMAND_LONG", command |-> "MAV_CMD_REQUEST_MESSAGE",
              param1 |-> CameraInformationId]]

\* C10: for COMMAND_LONG{REQUEST_MESSAGE, 259} from (1, 1) the processor
\* sends the ack for REQUEST_MESSAGE, ACCEPTED, to (1, 1), then one
\* CAMERA_INFORMATION with vendor "Davis Vendor" and model "Sony a7r ii",
\* each zero-padded to its capacity, and resolution 7952 by 5304, and
\* nothing else.
ScenarioOutput ==
    \A v \in active :
        rx[v] = ScenarioRequest =>
            /\ Len(out[v]) <= 2
            /\ Handled(v) => Len(out[v]) = 2
            /\ Len(out[v]) >= 1 =>
                  out[v][1].msg =
                     [name |-> "COMMAND_ACK",
                      command |-> "MAV_CMD_REQUEST_MESSAGE",
                      result |-> "MAV_RESULT_ACCEPTED",
                      target_system |-> 1, target_component |-> 1]
            /\ Len(out[v]) = 2 =>
                  /\ out[v][2].msg.name = "CAMERA_INFORMATION"
                  /\ out[v][2].msg.vendor_name =
                        DavisVendor \o Zeros(NameCapacity - Len(DavisVendor))
                  /\ out[v][2].msg.model_name =
                        SonyA7rII \o Zeros(NameCapacity - Len(SonyA7rII))
                  /\ out[v][2].msg.resolution_h = 7952
                  /\ out[v][2].msg.resolution_v = 5304

\* the scenario's command is handled and both frames went out
ScenarioOutputWitness ==
    \E v \in active :
        /\ rx[v] = ScenarioRequest
        /\ Handled(v)
        /\ Len(out[v]) = 2
        /\ out[v][1].res = "Ok" /\ out[v][2].res = "Ok"

\* the process of variant v is over: main returned or panicked
ProcessEnded(v) == v \in active /\ ~Alive(v)

\* C11: under fair scheduling the heartbeat thread calls send again and
\* again and the processor calls recv again and again, whatever the other
\* thread does, for as long as the process lives (the process of
\* mavlink_camera.rs never ends; that of _main.rs ends when main returns or
\* panics).
NoBackpressure ==
    \A v \in Variants :
        /\ []<>(v \notin active \/ ProcessEnded(v) \/ pc[v]["hb"] = "sending")
        /\ []<>(v \notin active \/ ProcessEnded(v) \/ pc[v]["proc"] = "recving")

\* a heartbeat send, not the first, is in flight while the processor holds
\* its guards and has the ack's send in flight
NoBackpressureWitness ==
    /\ "camera" \in active
    /\ pc["camera"]["hb"] = "sending"
    /\ beat["camera"].spacing # -1
    /\ pc["camera"]["proc"] = "acking"
    /\ readers["camera"]["proc"] = 2

\* C12, for mavlink_camera.rs: with a definition uri longer than the
\* capacity the processor thread does not panic, it goes on with its loop,
\* and it sends no CAMERA_INFORMATION.
UriOverflowReported ==
    ("camera" \in active /\ Len(uriSrc) > UriCapacity) =>
        /\ pc["camera"]["proc"] # "panicked"
        /\ ~(op["camera"]["proc"].kind = "send"
                /\ op["camera"]["proc"].msg.name = "CAMERA_INFORMATION")
        /\ Count(out["camera"], "CAMERA_INFORMATION") = 0

\* C13: str_to_fixed_arr returns exactly N bytes, the first min(len, N)
\* bytes of the source followed by zero bytes; a source longer than N is cut
\* to its first N bytes.
FixedArrPadsAndTruncates ==
    enc.stage = "fixed" =>
        LET k == IF Len(enc.src) < enc.cap THEN Len(enc.src) ELSE enc.cap
        IN  /\ DOMAIN enc.bytes = 1..enc.cap
            /\ enc.bytes = SubSeq(enc.src, 1, k) \o Zeros(enc.cap - k)
            /\ Len(enc.src) > enc.cap => enc.bytes = SubSeq(enc.src, 1, enc.cap)

\* a source longer than the capacity was encoded
FixedArrPadsAndTruncatesWitness ==
    /\ enc.stage = "fixed"
    /\ enc.cap > 0
    /\ Len(enc.src) > enc.cap

\* C14: in mavlink_camera.rs the identity stays what try_new made it, and
\* every frame either thread sends, the ones already sent in this cycle
\* included, has a header whose system_id and component_id are the
\* identity's.
FramesCarryIdentity ==
    "camera" \in active =>
        /\ component = CameraComponent
        /\ \A t \in Threads :
              op["camera"][t].kind = "send" =>
                  /\ op["camera"][t].header.system_id = component.system_id
                  /\ op["camera"][t].header.component_id = component.component_id
        /\ \A i \in 1..Len(out["camera"]) :
              /\ out["camera"][i].header.system_id = component.system_id
              /\ out["camera"][i].header.component_id = component.component_id

\* a heartbeat and the reply to an acknowledged command are in flight together
FramesCarryIdentityWitness ==
    /\ "camera" \in active
    /\ op["camera"]["hb"].kind = "send"
    /\ op["camera"]["proc"].kind = "send"
    /\ op["camera"]["proc"].msg.name = "CAMERA_INFORMATION"
    /\ Len(out["camera"]) = 1

\* C15: the vendor_name and model_name of every CAMERA_INFORMATION the
\* processor of mavlink_camera.rs sends are the fixed-capacity encodings of
\* the identity's vendor_name and model_name.
InformationStampedFromIdentity ==
    ("camera" \in active
        /\ op["camera"]["proc"].kind = "send"
        /\ op["camera"]["proc"].msg.name = "CAMERA_INFORMATION") =>
            /\ op["camera"]["proc"].msg.vendor_name =
                   StrToFixedArr(component.vendor_name, NameCapacity)
            /\ op["camera"]["proc"].msg.model_name =
                   StrToFixedArr(component.model_name, NameCapacity)

\* C16: every heartbeat the heartbeat thread sends, in either file, has
\* type MAV_TYPE_CAMERA and autopilot MAV_AUTOPILOT_INVALID, and all its
\* fields are the same constants whatever the state of the program: what
\* was received, what the processor is doing, how many heartbeats were sent.
HeartbeatFieldsFixed ==
    \A v \in active :
        op[v]["hb"].kind = "send" =>
            /\ op[v]["hb"].msg.name = "HEARTBEAT"
            /\ op[v]["hb"].msg.mavtype = "MAV_TYPE_CAMERA"
            /\ op[v]["hb"].msg.autopilot = "MAV_AUTOPILOT_INVALID"
            /\ op[v]["hb"].msg.custom_mode = 0
            /\ op[v]["hb"].msg.base_mode = {}
            /\ op[v]["hb"].msg.mavlink_version = 3
            /\ op[v]["hb"].msg.system_status =
                   IF v = "camera" THEN "MAV_STATE_STANDBY" ELSE "MAV_STATE_ACTIVE"

\* a later heartbeat is in flight while a received command is being answered
HeartbeatFieldsFixedWitness ==
    \E v \in active :
        /\ op[v]["hb"].kind = "send"
        /\ beat[v].spacing # -1
        /\ IsCommandLong(rx[v])
        /\ pc[v]["proc"] = "infoing"

\* C17: every heartbeat the heartbeat thread of mavlink_camera.rs sends has
\* system_status MAV_STATE_ACTIVE.
HeartbeatStatusActive ==
    ("camera" \in active /\ op["camera"]["hb"].kind = "send") =>
        op["camera"]["hb"].msg.system_status = "MAV_STATE_ACTIVE"

\* the startup Mutex of mavlink_camera.rs is held only between lock() and
\* drop(information), by a thread that has not entered its loop
InfoLockOnlyAtStart ==
    /\ infoLock["camera"] \in Threads => pc["camera"][infoLock["camera"]] = "locked"
    /\ \A t \in Threads :
          pc["camera"][t] = "locked" => infoLock["camera"] = t

\* the read guards the processor of mavlink_camera.rs holds: the one of the
\* recv from the call of recv to the end of the match, and a second one on
\* top of it during each send
GuardsNested ==
    /\ pc["camera"]["proc"] \in {"recving", "ack", "dispatch", "info"} =>
           readers["camera"]["proc"] = 1
    /\ pc["camera"]["proc"] \in {"acking", "infoing"} =>
           readers["camera"]["proc"] = 2
    /\ pc["camera"]["proc"] \in {"start", "locked", "sleep", "recv"} =>
           readers["camera"]["proc"] = 0

\* thread t of mavlink_camera.rs is about to acquire a lock: the startup
\* Mutex, or a read guard of the connection for a send or a recv
LockWanted(t) == pc["camera"][t] \in {"start", "send", "recv", "ack", "info"}

\* C18: the two threads of mavlink_camera.rs never deadlock. The startup
\* Mutex is held only before a thread's loop; the processor keeps the read
\* guard of its recv while it handles the frame and takes a second one for
\* the ack and for the capability send; under fair scheduling no thread
\* stays for ever in front of a lock it wants, the nested acquisitions
\* included, and both loops come back to their sleep again and again.
ThreadsNeverDeadlock ==
    /\ []("camera" \in active => InfoLockOnlyAtStart /\ GuardsNested)
    /\ \A t \in Threads :
          /\ []<>("camera" \notin active \/ ~LockWanted(t))
          /\ []<>("camera" \notin active \/ pc["camera"][t] = "sleep")

\* the processor holds the guard of its recv and the guard of the capability
\* send while the heartbeat thread holds a guard for a send of its own
ThreadsNeverDeadlockWitness ==
    /\ "camera" \in active
    /\ pc["camera"]["proc"] = "infoing"
    /\ readers["camera"]["proc"] = 2
    /\ readers["camera"]["hb"] = 1
    /\ pc["camera"]["hb"] = "sending"
    /\ infoLock["camera"] = "free"

\* C19: in mavlink_camera.rs no result of a send stops the processor. The
\* thread never ends; after a COMMAND_ACK whose send failed the capability
\* check runs, and for a command with param1 = 259 the CAMERA_INFORMATION is
\* sent as well; whatever the two results were, the handling ends in the
\* sleep of the next poll cycle with no guard held, no call in flight but
\* the next recv, and the identity and the thread's header as they were.
SendFailureAbsorbed ==
    "camera" \in active =>
        /\ pc["camera"]["proc"] \notin {"panicked", "exited"}
        /\ (Len(out["camera"]) = 1 /\ pc["camera"]["proc"] # "infoing") =>
              \/ pc["camera"]["proc"] \in {"dispatch", "info"}
              \/ Handled("camera") /\ ~CameraWantsInformation(rx["camera"].msg)
        /\ (Handled("camera") /\ IsCommandLong(rx["camera"])) =>
              /\ out["camera"][1].msg.name = "COMMAND_ACK"
              /\ CameraWantsInformation(rx["camera"].msg) =>
                    /\ Len(out["camera"]) = 2
                    /\ out["camera"][2].msg.name = "CAMERA_INFORMATION"
        /\ Handled("camera") =>
              /\ readers["camera"]["proc"] =
                     IF pc["camera"]["proc"] = "recving" THEN 1 ELSE 0
              /\ op["camera"]["proc"].kind =
                     IF pc["camera"]["proc"] = "recving" THEN "recv" ELSE "none"
        /\ pc["camera"]["proc"] \notin {"start", "locked"} =>
              /\ component = CameraComponent
              /\ header["camera"]["proc"] = HeaderOf(CameraComponent)

\* both sends for a capability request failed and the next recv is called
SendFailureAbsorbedWitness ==
    /\ "camera" \in active
    /\ pc["camera"]["proc"] = "recving"
    /\ IsCommandLong(rx["camera"])
    /\ Len(out["camera"]) = 2
    /\ out["camera"][1].res = "Err"
    /\ out["camera"][2].res = "Err"

\* the frame parts the processor of v wrote, as positions of the wire
ProcessorParts(v) == {i \in 1..Len(wire[v]) : wire[v][i].by = "proc"}

\* C20: the processor answers commands in the order it receives them. A
\* reply in flight is a reply to the last command received, the
\* CAMERA_INFORMATION only after the COMMAND_ACK of the same command has
\* returned, and no reply is in flight when the next frame is received; on
\* the wire the processor's frame parts are in the order of the commands
\* they answer and, within one command, the ack's parts come before the
\* capability reply's, whatever parts of heartbeats lie between them.
\* (Commands are numbered up to MaxCommands; from there on they share the
\* last number and only the order against earlier commands is stated.)
RepliesInOrder ==
    \A v \in active :
        /\ op[v]["proc"].kind = "send" =>
              /\ IsCommandLong(rx[v])
              /\ op[v]["proc"].re = cmdNo[v]
              /\ op[v]["proc"].msg.name = "COMMAND_ACK" => out[v] = <<>>
              /\ op[v]["proc"].msg.name = "CAMERA_INFORMATION" =>
                    /\ Len(out[v]) = 1
                    /\ out[v][1].msg.name = "COMMAND_ACK"
                    /\ out[v][1].re = cmdNo[v]
        /\ pc[v]["proc"] = "recving" => op[v]["proc"].kind = "recv"
        /\ \A i, j \in ProcessorParts(v) :
              i < j =>
                  /\ wire[v][i].re <= wire[v][j].re
                  /\ (wire[v][i].re = wire[v][j].re /\ wire[v][i].re < MaxCommands) =>
                        /\ ~(/\ wire[v][i].name = "CAMERA_INFORMATION"
                              /\ wire[v][j].name = "COMMAND_ACK")
                        /\ wire[v][i].name = wire[v][j].name =>
                              wire[v][i].part < wire[v][j].part

\* on the wire of mavlink_camera.rs a part of a heartbeat lies between the
\* ack of the second command and the capability reply to it
RepliesInOrderWitness ==
    /\ "camera" \in active
    /\ Len(wire["camera"]) = 3
    /\ wire["camera"][1].by = "proc"
    /\ wire["camera"][1].name = "COMMAND_ACK"
    /\ wire["camera"][1].re = 2
    /\ wire["camera"][2].by = "hb"
    /\ wire["camera"][3].by = "proc"
    /\ wire["camera"][3].name = "CAMERA_INFORMATION"
    /\ wire["camera"][3].re = 2

====
